---- MODULE Spec2Model ----
(***************************************************************************)
(* The time-boxed response cache of the weather dashboard's API client     *)
(* (weather_dashboard/weather_api.py, class WeatherAPI).                   *)
(*                                                                         *)
(* Representation.  Strings that the code transforms are sequences of      *)
(* one-character strings, so that lower() is computed and not assumed.     *)
(* Floats are integers counting hundredths (API side) or tenths (after     *)
(* round(x, 1)).  Python's None is the record None; the JSON object {} is  *)
(* the record EmptyJson.  Time is in whole seconds since the construction  *)
(* of the WeatherAPI instance; the wall clock is taken to be monotonic.    *)
(***************************************************************************)
EXTENDS Integers, Sequences, FiniteSets, TLC

VARIABLES
    cache,           \* self.cache: cache key -> [data, timestamp]
    cache_duration,  \* self.cache_duration
    now,             \* the wall clock, datetime.now()
    calls,           \* number of get_current_weather / get_forecast calls so far
    last,            \* what the most recent step did (observation of the call)
    fetched,         \* per request: the result of its latest successful fetch since the last clear_cache()
    lastStore,       \* the latest store made by any call: key, value, time, and whether
                     \* clear_cache() ran since
    typed,           \* the line the user typed for the call of the most recent step
    storedLine,      \* the line typed for the call that made the latest store
    threads,         \* per thread inside a get_* call: its position and its local variables
    requestsMade,    \* invocations of _make_request by the threads so far
    scan,            \* the loop of get_forecast over data['list']: its locals and position
    storage,         \* DataStorage: self.data['favorites'], the file, and the latest call
    web              \* the inventory application: the browser's session, the database
                     \* tables, and the latest request with its response

threadVars == <<threads, requestsMade>>

\* the state the command-line program (one thread) never touches
besideCli == <<threadVars, scan, storage, web>>

\* the state of WeatherAPI and of its observers
apiVars == <<cache, cache_duration, now, calls, last, fetched, lastStore, typed, storedLine,
             threads, requestsMade>>

\* what the threads, the forecast loop and the favourites leave alone
besideThreads == <<scan, storage, web>>
besideForecast == <<apiVars, storage, web>>
besideFavorites == <<apiVars, scan, web>>
besideInventory == <<apiVars, scan, storage>>

vars == <<cache, cache_duration, now, calls, last, fetched, lastStore, typed, storedLine,
          threads, requestsMade, scan, storage, web>>

(***************************************************************************)
(* Bounds of the model.                                                    *)
(***************************************************************************)
MaxCalls == 2      \* get_* calls in one behaviour
MaxTicks == 2      \* clock advances between calls
TickStep == 300    \* seconds the clock advances between two calls
MaxLatency == 1    \* seconds an external request may take
MaxDays == 6       \* calendar days the items of a forecast response spread over
MaxRequests == 4   \* HTTP requests the inventory application serves in one behaviour

(***************************************************************************)
(* Constants of the program.                                               *)
(***************************************************************************)
CacheDuration == 600
ForecastLimit == 5
NoonHour == 12

None == [none |-> TRUE]
EmptyJson == [empty |-> TRUE]

(***************************************************************************)
(* str.lower() on the letters that occur in the modelled city names.       *)
(***************************************************************************)
LowerChar(c) ==
    CASE c = "R" -> "r"
      [] c = "O" -> "o"
      [] c = "M" -> "m"
      [] c = "E" -> "e"
      [] c = "S" -> "s"
      [] c = "L" -> "l"
      [] OTHER -> c

Lower(s) == [i \in 1..Len(s) |-> LowerChar(s[i])]

Cities ==
    { <<"R", "o", "m", "e">>, <<"r", "o", "m", "e">>, <<"O", "s", "l", "o">> }

(***************************************************************************)
(* str.title() on the same letters: a letter that follows a letter is      *)
(* lower-cased, any other letter is upper-cased.                           *)
(***************************************************************************)
UpperChar(c) ==
    CASE c = "r" -> "R"
      [] c = "o" -> "O"
      [] c = "m" -> "M"
      [] c = "e" -> "E"
      [] c = "s" -> "S"
      [] c = "l" -> "L"
      [] OTHER -> c

IsLetter(c) == LowerChar(c) # UpperChar(c)

Title(s) ==
    [i \in 1..Len(s) |->
        IF i > 1 /\ IsLetter(s[i - 1]) THEN LowerChar(s[i]) ELSE UpperChar(s[i])]

(***************************************************************************)
(* main.py reads a city as input(...).strip(): str.strip() removes the     *)
(* leading and the trailing blanks; an empty result is turned away.        *)
(***************************************************************************)
RECURSIVE LStrip(_)
LStrip(s) == IF s # <<>> /\ Head(s) = " " THEN LStrip(Tail(s)) ELSE s

RECURSIVE RStrip(_)
RStrip(s) == IF s # <<>> /\ s[Len(s)] = " " THEN RStrip(SubSeq(s, 1, Len(s) - 1)) ELSE s

Strip(s) == RStrip(LStrip(s))

InputLines ==
    { <<"R", "o", "m", "e">>, <<" ", "r", "o", "m", "e", " ">>, <<"O", "s", "l", "o">>, <<" ">> }

\* the line passed on as it was typed
ReadCityUnstripped(line) == line

\* city = input("\nEnter city name: ").strip()
ReadCity(line) == Strip(line)

\* a forecast key built with the prefix of the current-weather keys
ForecastKeyShared(city) == <<"current_">> \o Lower(city)

\* the key of get_current_weather built with get_forecast's prefix
CurrentKeyCopied(city) == <<"forecast_">> \o Lower(city)

\* f"current_{city.lower()}" and f"forecast_{city.lower()}"
CurrentKey(city) == <<"current_">> \o Lower(city)
ForecastKey(city) == <<"forecast_">> \o Lower(city)

(***************************************************************************)
(* The external service.  A response is what requests.get() produces: an   *)
(* HTTP response with a status code and a decoded JSON body, or one of the *)
(* exceptions _make_request catches.                                       *)
(***************************************************************************)
ApiName(q) == IF Lower(q) = <<"r", "o", "m", "e">> THEN "Rome" ELSE "Oslo"

Temps == {2134, 2187}          \* hundredths of a degree; no value ends in 5

WeatherJson(q, t) ==
    [ name    |-> ApiName(q),
      sys     |-> [country |-> "XX"],
      main    |-> [temp |-> t, feels_like |-> t - 104, humidity |-> 40, pressure |-> 1013],
      weather |-> <<[description |-> "clear sky"]>>,
      wind    |-> [speed |-> 312] ]

ForecastItem(day, hour, t) ==
    [ dt      |-> (day * 24 + hour) * 3600,
      main    |-> [temp_min |-> t - 250, temp_max |-> t, humidity |-> 55],
      weather |-> <<[description |-> "light rain"]>> ]

ForecastList(t) ==
    << ForecastItem(0, 9, t), ForecastItem(0, 12, t), ForecastItem(0, 12, t + 11),
       ForecastItem(1, 12, t + 22), ForecastItem(1, 15, t), ForecastItem(2, 12, t + 33) >>

ForecastJson(q, t) == [ city |-> [name |-> ApiName(q)], list |-> ForecastList(t) ]

\* a 200 body that is a non-empty object without the fields the parsers read
MalformedJson == [cod |-> "200"]

HttpResponse(status, body) == [exc |-> "none", status_code |-> status, json |-> body]
Raised(e) == [exc |-> e, status_code |-> 0, json |-> None]

FailureResponses ==
    { HttpResponse(401, EmptyJson), HttpResponse(404, EmptyJson), HttpResponse(500, EmptyJson),
      Raised("Timeout"), Raised("ConnectionError"), Raised("Exception") }

Responses(endpoint, q) ==
    FailureResponses
      \cup { HttpResponse(200, EmptyJson), HttpResponse(200, MalformedJson) }
      \cup { HttpResponse(200, IF endpoint = "weather" THEN WeatherJson(q, t)
                                                       ELSE ForecastJson(q, t)) : t \in Temps }

(***************************************************************************)
(* WeatherAPI._make_request: the decoded body on status 200, None on any   *)
(* other status and on every exception.                                    *)
(***************************************************************************)
MakeRequest(response) ==
    IF response.exc = "none"
    THEN IF response.status_code = 200 THEN response.json ELSE None
    ELSE None

\* what _make_request(endpoint, {'q': q}) can return
Answers(endpoint, q) == {MakeRequest(response) : response \in Responses(endpoint, q)}

\* Python truth value of what _make_request returned ("if not data")
Falsy(data) == data = None \/ data = EmptyJson

\* _is_cache_valid with the window's boundary included
IsCacheValidInclusive(c, cache_key, current_time, duration) ==
    IF cache_key \notin DOMAIN c
    THEN FALSE
    ELSE LET cached_time == c[cache_key].timestamp
             time_diff == current_time - cached_time
         IN  time_diff <= duration

\* _is_cache_valid comparing the wrong way round
IsCacheValidInverted(c, cache_key, current_time, duration) ==
    IF cache_key \notin DOMAIN c
    THEN FALSE
    ELSE LET cached_time == c[cache_key].timestamp
             time_diff == current_time - cached_time
         IN  time_diff > duration

(***************************************************************************)
(* WeatherAPI._is_cache_valid, evaluated when the clock reads current_time *)
(***************************************************************************)
IsCacheValid(c, cache_key, current_time, duration) ==
    IF cache_key \notin DOMAIN c
    THEN FALSE
    ELSE LET cached_time == c[cache_key].timestamp
             time_diff == current_time - cached_time
         IN  time_diff < duration

(***************************************************************************)
(* round(x, 1) of a float given in hundredths, in tenths.  The modelled    *)
(* temperatures are never halfway between two tenths.                      *)
(***************************************************************************)
Round1(h) == (h + 5) \div 10

\* the subscripts data[...] of get_current_weather succeed
WeatherParses(data) == {"name", "sys", "main", "weather", "wind"} \subseteq DOMAIN data

\* weather_info of get_current_weather
ParseWeather(data) ==
    [ city        |-> data.name,
      country     |-> data.sys.country,
      temperature |-> Round1(data.main.temp),
      feels_like  |-> Round1(data.main.feels_like),
      description |-> data.weather[1].description,
      humidity    |-> data.main.humidity,
      pressure    |-> data.main.pressure,
      wind_speed  |-> Round1(data.wind.speed) ]

(***************************************************************************)
(* datetime.fromtimestamp(dt) for timestamps of the year 1970 (UTC):       *)
(* the day number stands for strftime('%Y-%m-%d'), which is injective in   *)
(* it; strftime('%A, %B %d') keeps weekday, month and day of month.        *)
(***************************************************************************)
MonthLengths == <<31, 28, 31, 30, 31, 30, 31, 31, 30, 31, 30, 31>>

RECURSIVE MonthAndDay(_, _)
MonthAndDay(d, m) ==
    IF m >= 12 \/ d < MonthLengths[m]
    THEN [month |-> m, day |-> d + 1]
    ELSE MonthAndDay(d - MonthLengths[m], m + 1)

FromTimestamp(dt) ==
    LET day == dt \div (24 * 3600)
    IN  [ date_str |-> day,
          hour     |-> (dt \div 3600) % 24,
          label    |-> [ weekday |-> (day + 3) % 7,      \* 0 = Monday; 1970-01-01 was a Thursday
                         month   |-> MonthAndDay(day, 1).month,
                         day     |-> MonthAndDay(day, 1).day ] ]

\* the dictionary built for an item that is taken (lines 124-130)
ForecastOf(item) ==
    [ date        |-> FromTimestamp(item.dt).label,
      temp_min    |-> Round1(item.main.temp_min),
      temp_max    |-> Round1(item.main.temp_max),
      description |-> item.weather[1].description,
      humidity    |-> item.main.humidity ]

\* a loop body that takes an item of any hour
ScanItemAnyHour(item, forecasts, processed_dates) ==
    LET date_time == FromTimestamp(item.dt)
        take == date_time.date_str \notin processed_dates
    IN  [ forecasts       |-> IF take THEN Append(forecasts, ForecastOf(item)) ELSE forecasts,
          processed_dates |-> IF take THEN processed_dates \cup {date_time.date_str}
                                      ELSE processed_dates ]

\* one pass through the body of "for item in data['list']", up to the test
\* of the length (lines 119-132)
ScanItem(item, forecasts, processed_dates) ==
    LET date_time == FromTimestamp(item.dt)
        take == date_time.date_str \notin processed_dates /\ date_time.hour = NoonHour
    IN  [ forecasts       |-> IF take THEN Append(forecasts, ForecastOf(item)) ELSE forecasts,
          processed_dates |-> IF take THEN processed_dates \cup {date_time.date_str}
                                      ELSE processed_dates ]

\* if len(forecasts) >= 5: break
LoopBreaks(forecasts) == Len(forecasts) >= ForecastLimit

\* the loop "for item in data['list']" of get_forecast, from item i on
RECURSIVE ScanForecast(_, _, _, _)
ScanForecast(list, i, forecasts, processed_dates) ==
    IF i > Len(list)
    THEN forecasts
    ELSE LET after == ScanItem(list[i], forecasts, processed_dates)
         IN  IF LoopBreaks(after.forecasts)
             THEN after.forecasts
             ELSE ScanForecast(list, i + 1, after.forecasts, after.processed_dates)

\* the subscripts data[...] of get_forecast succeed
ForecastParses(data) == {"list", "city"} \subseteq DOMAIN data

\* forecast_info of get_forecast
ParseForecast(data) ==
    [ city      |-> data.city.name,
      forecasts |-> ScanForecast(data.list, 1, <<>>, {}) ]

(***************************************************************************)
(* The pieces of get_current_weather / get_forecast that touch the cache.  *)
(***************************************************************************)
EmptyCache == [k \in {} |-> None]

\* a fetch that asks once more after a failure
FetchWithRetry(answer) ==
    [data |-> answer, requests |-> IF answer = None THEN 2 ELSE 1]

\* data = self._make_request(endpoint, params): one invocation, no loop around it
Fetch(answer) == [data |-> answer, requests |-> 1]

\* a hit that restarts the entry's window
OnHitRefreshing(c, cache_key, current_time) ==
    [cache |-> [c EXCEPT ![cache_key].timestamp = current_time], ret |-> c[cache_key].data]

\* "return self.cache[cache_key]['data']": the entry is read, nothing is
\* written, the clock is not consulted again
OnHit(c, cache_key, current_time) == [cache |-> c, ret |-> c[cache_key].data]

\* a failed fetch that is remembered as an entry without data
OnFailureCached(c, cache_key) ==
    [cache |-> [k \in DOMAIN c \cup {cache_key} |->
                   IF k = cache_key THEN [data |-> None, timestamp |-> 0] ELSE c[k]],
     ret |-> None]

\* a failed fetch answered with the entry that is still stored
OnFailureServeStale(c, cache_key) ==
    [cache |-> c, ret |-> IF cache_key \in DOMAIN c THEN c[cache_key].data ELSE None]

\* a failed fetch that drops the key's entry
OnFailureEvict(c, cache_key) ==
    [cache |-> [k \in DOMAIN c \ {cache_key} |-> c[k]], ret |-> None]

\* "if not data: return None": nothing is written, None is returned
OnFailure(c, cache_key) == [cache |-> c, ret |-> None]

\* a store stamped with the negated clock
StoreEntryNegated(c, cache_key, info, current_time) ==
    [k \in DOMAIN c \cup {cache_key} |->
        IF k = cache_key THEN [data |-> info, timestamp |-> 0 - current_time] ELSE c[k]]

\* a store stamped one window in the past
StoreEntryBackdated(c, cache_key, info, current_time) ==
    [k \in DOMAIN c \cup {cache_key} |->
        IF k = cache_key THEN [data |-> info, timestamp |-> current_time - CacheDuration]
        ELSE c[k]]

\* a store that gives the entry a window of its own
StoreEntryWithWindow(c, cache_key, info, current_time) ==
    [k \in DOMAIN c \cup {cache_key} |->
        IF k = cache_key
        THEN [data |-> info, timestamp |-> current_time, duration |-> CacheDuration]
        ELSE c[k]]

\* a store that leaves a fresh entry of the key in place
StoreEntryUnlessFresh(c, cache_key, info, current_time) ==
    IF cache_key \in DOMAIN c /\ current_time - c[cache_key].timestamp < CacheDuration
    THEN c
    ELSE [k \in DOMAIN c \cup {cache_key} |->
             IF k = cache_key THEN [data |-> info, timestamp |-> current_time] ELSE c[k]]

\* a store that also drops the entries whose window has elapsed
StoreEntryPruning(c, cache_key, info, current_time) ==
    [k \in {j \in DOMAIN c : current_time - c[j].timestamp < CacheDuration} \cup {cache_key} |->
        IF k = cache_key THEN [data |-> info, timestamp |-> current_time] ELSE c[k]]

\* self.cache[cache_key] = {'data': info, 'timestamp': datetime.now()}
StoreEntry(c, cache_key, info, current_time) ==
    [k \in DOMAIN c \cup {cache_key} |->
        IF k = cache_key THEN [data |-> info, timestamp |-> current_time] ELSE c[k]]

\* clear_cache that rebinds a local name and leaves self.cache alone
ClearedCacheNoop(c) == c

\* clear_cache that drops one entry only
ClearedCacheOne(c) ==
    IF DOMAIN c = {} THEN c
    ELSE LET victim == CHOOSE k \in DOMAIN c : TRUE
         IN  [k \in DOMAIN c \ {victim} |-> c[k]]

\* self.cache = {}
ClearedCache(c) == EmptyCache

(***************************************************************************)
(* State.                                                                  *)
(***************************************************************************)
Latencies == {0, MaxLatency}
Lowered == {Lower(c) : c \in Cities}
Endpoints == {"weather", "forecast"}
RequestIds == Endpoints \X Lowered

NoStore == [stored |-> FALSE, key |-> <<>>, data |-> None, timestamp |-> 0, cleared |-> FALSE]

Observation(op, endpoint, city, cache_key, t, had, requests, result, ret) ==
    [ op         |-> op,          \* the operation of the step
      endpoint   |-> endpoint,    \* the endpoint the operation asks
      city       |-> city,        \* its argument
      key        |-> cache_key,   \* the cache key it computed
      checked_at |-> t,           \* the clock when _is_cache_valid ran
      had        |-> had,         \* the key had an entry, fresh or stale, at that moment
      requests   |-> requests,    \* invocations of _make_request
      result     |-> result,      \* "hit", "failed" (no response body), "empty" (falsy body),
                                  \* "raised" (KeyError while parsing), "stored"
      ret        |-> ret ]        \* the value returned to the caller

Idle(op, t) == Observation(op, "", <<>>, <<>>, t, FALSE, 0, "", None)

Threads == {"t1", "t2"}

\* a thread that is not inside a call
IdleThread ==
    [ pc       |-> "idle",   \* "idle", "check", "fetch", "store", "done"
      endpoint |-> "",       \* "weather" inside get_current_weather, "forecast" inside get_forecast
      city     |-> <<>>,     \* the argument
      key      |-> <<>>,     \* local cache_key
      saw      |-> None,     \* the key's entry when _is_cache_valid ran (None: no entry)
      info     |-> None,     \* local weather_info / forecast_info
      replaced |-> None,     \* the key's entry just before this thread's store (None: no entry)
      ret      |-> None ]    \* the value returned

\* no forecast response is being processed
NoScan == [list |-> <<>>, i |-> 1, forecasts |-> <<>>, processed_dates |-> {}, done |-> TRUE]

InitApi ==
    /\ cache = EmptyCache
    /\ cache_duration = CacheDuration
    /\ now = 0
    /\ calls = 0
    /\ last = Idle("__init__", 0)
    /\ fetched = [r \in RequestIds |-> None]
    /\ lastStore = NoStore
    /\ typed = <<>>
    /\ storedLine = <<>>
    /\ threads = [t \in Threads |-> IdleThread]
    /\ requestsMade = 0

\* DataStorage() on a machine without weather_data.json: the default data,
\* written to the file
NewStorage == [favorites |-> <<>>, disk |-> <<>>, op |-> "__init__", arg |-> <<>>, ret |-> TRUE]

(***************************************************************************)
(* The inventory application (inventory_system/app.py) as one browser sees *)
(* it.  The session is the mapping Flask keeps for that browser; the       *)
(* browser sends back the session the last response gave it.               *)
(***************************************************************************)
\* generate_password_hash / check_password_hash: the hash determines the
\* password and is not the password
GeneratePasswordHash(password) == <<"hash", password>>
CheckPasswordHash(pwhash, password) == pwhash = GeneratePasswordHash(password)

\* the default admin user (lines 68-75)
Users ==
    { [id |-> 1, username |-> "admin", password |-> GeneratePasswordHash("admin123"),
       role |-> "admin"] }

EmptySession == [k \in {} |-> ""]

NoRequest ==
    [ route    |-> "",        \* the view function the URL is routed to
      method   |-> "",        \* GET or POST
      username |-> "",        \* form fields of a login POST
      password |-> "",
      response |-> "",        \* "login" (redirect to the login page), "redirect" (to
                              \* another page), "page" (a rendered template), "404"
      ran      |-> FALSE ]    \* the decorated view function was entered

\* db.create_all() and the default admin: empty tables
NewWeb ==
    [ session      |-> EmptySession,
      items        |-> [id \in {} |-> 0],   \* Item.id -> Item.quantity
      next_id      |-> 1,                   \* the next Item.id
      transactions |-> <<>>,                \* rows of Transaction
      categories   |-> {},                  \* Category.name
      locations    |-> {},                  \* Location.name
      initial      |-> [id \in {} |-> 0],   \* Item.id -> the quantity add_item gave the item
      edited       |-> {},                  \* Item.id of the items edit_item has rewritten
      served       |-> 0,
      req          |-> NoRequest ]

Init == InitApi /\ scan = NoScan /\ storage = NewStorage /\ web = NewWeb

(***************************************************************************)
(* Time passes between two calls.                                          *)
(***************************************************************************)
Tick ==
    /\ now + TickStep <= MaxTicks * TickStep + MaxCalls * MaxLatency
    /\ now' = now + TickStep
    /\ last' = Idle("tick", now')
    /\ UNCHANGED <<cache, cache_duration, calls, fetched, lastStore>>

(***************************************************************************)
(* WeatherAPI.get_current_weather(city); the request, made only when the   *)
(* cache has no valid entry, returns answer after latency seconds.         *)
(***************************************************************************)
GetCurrentWeather(city) ==
    LET cache_key == CurrentKey(city)
        Obs(requests, result, ret) ==
            Observation("get_current_weather", "weather", city, cache_key, now,
                        cache_key \in DOMAIN cache, requests, result, ret)
    IN
    /\ calls < MaxCalls
    /\ calls' = calls + 1
    /\ UNCHANGED cache_duration
    /\ IF IsCacheValid(cache, cache_key, now, cache_duration)
       THEN /\ cache' = OnHit(cache, cache_key, now).cache
            /\ last' = Obs(0, "hit", OnHit(cache, cache_key, now).ret)
            /\ UNCHANGED <<now, fetched, lastStore>>
       ELSE \E answer \in Answers("weather", city) :
            LET fetch == Fetch(answer)
                data == fetch.data
            IN
            IF Falsy(data)
            THEN \E latency \in Latencies :
                 /\ now' = now + latency
                 /\ cache' = OnFailure(cache, cache_key).cache
                 /\ last' = Obs(fetch.requests, IF data = None THEN "failed" ELSE "empty",
                                 OnFailure(cache, cache_key).ret)
                 /\ UNCHANGED <<fetched, lastStore>>
            ELSE IF ~WeatherParses(data)
            THEN \* KeyError leaves the method before the cache is written
                 \E latency \in Latencies :
                 /\ now' = now + latency
                 /\ last' = Obs(fetch.requests, "raised", None)
                 /\ UNCHANGED <<cache, fetched, lastStore>>
            ELSE \E weather_info \in {ParseWeather(data)}, latency \in Latencies :
                 /\ now' = now + latency
                 /\ cache' = StoreEntry(cache, cache_key, weather_info, now')
                 /\ last' = Obs(fetch.requests, "stored", weather_info)
                 /\ fetched' = [fetched EXCEPT ![<<"weather", Lower(city)>>] = weather_info]
                 /\ lastStore' = [stored |-> TRUE, key |-> cache_key, data |-> weather_info,
                                  timestamp |-> now', cleared |-> FALSE]

(***************************************************************************)
(* WeatherAPI.get_forecast(city)                                           *)
(***************************************************************************)
GetForecast(city) ==
    LET cache_key == ForecastKey(city)
        Obs(requests, result, ret) ==
            Observation("get_forecast", "forecast", city, cache_key, now,
                        cache_key \in DOMAIN cache, requests, result, ret)
    IN
    /\ calls < MaxCalls
    /\ calls' = calls + 1
    /\ UNCHANGED cache_duration
    /\ IF IsCacheValid(cache, cache_key, now, cache_duration)
       THEN /\ cache' = OnHit(cache, cache_key, now).cache
            /\ last' = Obs(0, "hit", OnHit(cache, cache_key, now).ret)
            /\ UNCHANGED <<now, fetched, lastStore>>
       ELSE \E answer \in Answers("forecast", city) :
            LET fetch == Fetch(answer)
                data == fetch.data
            IN
            IF Falsy(data)
            THEN \E latency \in Latencies :
                 /\ now' = now + latency
                 /\ cache' = OnFailure(cache, cache_key).cache
                 /\ last' = Obs(fetch.requests, IF data = None THEN "failed" ELSE "empty",
                                 OnFailure(cache, cache_key).ret)
                 /\ UNCHANGED <<fetched, lastStore>>
            ELSE IF ~ForecastParses(data)
            THEN \* KeyError leaves the method before the cache is written
                 \E latency \in Latencies :
                 /\ now' = now + latency
                 /\ last' = Obs(fetch.requests, "raised", None)
                 /\ UNCHANGED <<cache, fetched, lastStore>>
            ELSE \E forecast_info \in {ParseForecast(data)}, latency \in Latencies :
                 /\ now' = now + latency
                 /\ cache' = StoreEntry(cache, cache_key, forecast_info, now')
                 /\ last' = Obs(fetch.requests, "stored", forecast_info)
                 /\ fetched' = [fetched EXCEPT ![<<"forecast", Lower(city)>>] = forecast_info]
                 /\ lastStore' = [stored |-> TRUE, key |-> cache_key, data |-> forecast_info,
                                  timestamp |-> now', cleared |-> FALSE]

(***************************************************************************)
(* WeatherAPI.clear_cache()                                                *)
(***************************************************************************)
ClearCache ==
    /\ cache' = ClearedCache(cache)
    /\ fetched' = [r \in RequestIds |-> None]
    /\ last' = Idle("clear_cache", now)
    /\ lastStore' = [lastStore EXCEPT !.cleared = lastStore.stored]
    /\ UNCHANGED <<cache_duration, now, calls>>

(***************************************************************************)
(* main.get_weather and main.get_forecast up to their call of the API: the *)
(* typed line is stripped, an empty city is turned away, the others are    *)
(* passed to the WeatherAPI method.  What the two functions do with the    *)
(* returned value (display, offer to save a favourite) leaves the cache    *)
(* alone; the favourites are modelled with DataStorage.                    *)
(***************************************************************************)
AskCurrentWeather(line) ==
    LET city == ReadCity(line) IN
    /\ city # <<>>
    /\ GetCurrentWeather(city)
    /\ typed' = line
    /\ storedLine' = IF last'.result = "stored" THEN line ELSE storedLine

AskForecast(line) ==
    LET city == ReadCity(line) IN
    /\ city # <<>>
    /\ GetForecast(city)
    /\ typed' = line
    /\ storedLine' = IF last'.result = "stored" THEN line ELSE storedLine

Next ==
    \/ Tick /\ typed' = <<>> /\ UNCHANGED <<storedLine, besideCli>>
    \/ \E line \in InputLines : AskCurrentWeather(line) /\ UNCHANGED besideCli
    \/ \E line \in InputLines : AskForecast(line) /\ UNCHANGED besideCli
    \/ ClearCache /\ typed' = <<>> /\ UNCHANGED <<storedLine, besideCli>>

Spec == Init /\ [][Next]_vars

(***************************************************************************)
(* Two threads sharing one WeatherAPI instance.  The methods take no lock, *)
(* so a call is split where another thread can run in between: after the   *)
(* key is computed, after _is_cache_valid and the read of a valid entry,   *)
(* after _make_request and the parsing of its result, and after the store. *)
(***************************************************************************)
\* the variables only the observations of the single-threaded program use
cliObservations == <<last, fetched, lastStore, typed, storedLine>>

EntryOf(c, cache_key) == IF cache_key \in DOMAIN c THEN c[cache_key] ELSE None

\* cache_key = f"current_{city.lower()}" / f"forecast_{city.lower()}"
ThreadBegin(t, endpoint, city) ==
    /\ threads[t].pc \in {"idle", "done"}
    /\ calls < MaxCalls
    /\ calls' = calls + 1
    /\ threads' = [threads EXCEPT ![t] =
           [IdleThread EXCEPT !.pc = "check", !.endpoint = endpoint, !.city = city,
                              !.key = IF endpoint = "weather" THEN CurrentKey(city)
                                      ELSE ForecastKey(city)]]
    /\ UNCHANGED <<cache, cache_duration, now, requestsMade, cliObservations>>

\* if self._is_cache_valid(cache_key): return self.cache[cache_key]['data']
ThreadCheck(t) ==
    LET self == threads[t] IN
    /\ self.pc = "check"
    /\ threads' = [threads EXCEPT ![t] =
           IF IsCacheValid(cache, self.key, now, cache_duration)
           THEN [self EXCEPT !.pc = "done", !.saw = cache[self.key],
                             !.ret = cache[self.key].data]
           ELSE [self EXCEPT !.pc = "fetch", !.saw = EntryOf(cache, self.key)]]
    /\ UNCHANGED <<cache, cache_duration, now, calls, requestsMade, cliObservations>>

\* data = self._make_request(...); if not data: return None; the parsing
ThreadFetch(t, answer) ==
    LET self == threads[t]
        fetch == Fetch(answer)
        data == fetch.data
        parses == IF self.endpoint = "weather" THEN WeatherParses(data)
                  ELSE ForecastParses(data)
    IN
    /\ self.pc = "fetch"
    /\ requestsMade' = requestsMade + fetch.requests
    /\ threads' = [threads EXCEPT ![t] =
           IF Falsy(data) THEN [self EXCEPT !.pc = "done", !.ret = OnFailure(cache, self.key).ret]
           ELSE IF ~parses THEN [self EXCEPT !.pc = "done"]
           ELSE [self EXCEPT !.pc = "store",
                             !.info = IF self.endpoint = "weather" THEN ParseWeather(data)
                                      ELSE ParseForecast(data)]]
    /\ UNCHANGED <<cache, cache_duration, now, calls, cliObservations>>

\* self.cache[cache_key] = {'data': info, 'timestamp': datetime.now()}; return info
ThreadStore(t) ==
    LET self == threads[t] IN
    /\ self.pc = "store"
    /\ cache' = StoreEntry(cache, self.key, self.info, now)
    /\ threads' = [threads EXCEPT ![t] =
           [self EXCEPT !.pc = "done", !.replaced = EntryOf(cache, self.key),
                        !.ret = self.info]]
    /\ UNCHANGED <<cache_duration, now, calls, requestsMade, cliObservations>>

\* time passes while the threads run
ThreadTick ==
    /\ now + TickStep <= MaxTicks * TickStep
    /\ now' = now + TickStep
    /\ UNCHANGED <<cache, cache_duration, calls, threadVars, cliObservations>>

NextThreads ==
    \/ \E t \in Threads, endpoint \in Endpoints, city \in Cities :
          ThreadBegin(t, endpoint, city) /\ UNCHANGED besideThreads
    \/ \E t \in Threads : ThreadCheck(t) /\ UNCHANGED besideThreads
    \/ \E t \in Threads :
          \E answer \in Answers(threads[t].endpoint, threads[t].city) :
              ThreadFetch(t, answer) /\ UNCHANGED besideThreads
    \/ \E t \in Threads : ThreadStore(t) /\ UNCHANGED besideThreads
    \/ ThreadTick /\ UNCHANGED besideThreads

SpecThreads == Init /\ [][NextThreads]_vars

(***************************************************************************)
(* get_forecast's loop over the items of a response, one iteration a step. *)
(* The responses are the selections, kept in order or reversed, from a     *)
(* chronological list with items before noon, at noon, twice at noon of    *)
(* one day, and after noon; the temperatures tell the items apart.         *)
(***************************************************************************)
ChronologicalItems ==
    << ForecastItem(0, 9, 2000), ForecastItem(0, 12, 2011), ForecastItem(0, 12, 2022),
       ForecastItem(1, 12, 2033), ForecastItem(1, 15, 2044) >>
    \o [d \in 1..(MaxDays - 2) |-> ForecastItem(d + 1, 12, 2100 + 11 * d)]

RECURSIVE Selection(_, _, _)
Selection(list, mask, i) ==
    IF i > Len(list) THEN <<>>
    ELSE (IF mask[i] THEN <<list[i]>> ELSE <<>>) \o Selection(list, mask, i + 1)

Reversed(list) == [i \in 1..Len(list) |-> list[Len(list) + 1 - i]]

ForecastInputs ==
    LET selections == { Selection(ChronologicalItems, mask, 1) :
                           mask \in [1..Len(ChronologicalItems) -> BOOLEAN] }
    IN  selections \cup { Reversed(l) : l \in selections }

\* forecasts = []; processed_dates = set()  (lines 115-116)
StartScan(list) ==
    [list |-> list, i |-> 1, forecasts |-> <<>>, processed_dates |-> {}, done |-> FALSE]

InitForecast ==
    /\ InitApi
    /\ scan \in {StartScan(list) : list \in ForecastInputs}
    /\ storage = NewStorage
    /\ web = NewWeb

\* one iteration: the body, then the test of the length and the break
ForecastLoopItem ==
    /\ ~scan.done
    /\ scan.i <= Len(scan.list)
    /\ LET after == ScanItem(scan.list[scan.i], scan.forecasts, scan.processed_dates) IN
       scan' = [scan EXCEPT !.forecasts = after.forecasts,
                            !.processed_dates = after.processed_dates,
                            !.i = scan.i + 1,
                            !.done = LoopBreaks(after.forecasts)]
    /\ UNCHANGED besideForecast

\* the list is exhausted: the loop ends
ForecastLoopEnd ==
    /\ ~scan.done
    /\ scan.i > Len(scan.list)
    /\ scan' = [scan EXCEPT !.done = TRUE]
    /\ UNCHANGED besideForecast

NextForecast == ForecastLoopItem \/ ForecastLoopEnd

SpecForecast == InitForecast /\ [][NextForecast]_vars

(***************************************************************************)
(* DataStorage (weather_dashboard/data_storage.py): the favourites.        *)
(* writable tells whether open(self.filename, 'w') and json.dump succeed;  *)
(* when they do not, _save_data reports False and the file is taken to     *)
(* keep its content.                                                       *)
(***************************************************************************)
FavoriteArgs ==
    { <<"r", "o", "m", "e">>, <<" ", "R", "O", "M", "E">>, <<"O", "s", "l", "o">>,
      <<"o", "s", " ", "l", "o">> }

Elements(list) == {list[i] : i \in 1..Len(list)}

\* list.remove(x): the first occurrence goes
RECURSIVE ListRemove(_, _)
ListRemove(list, x) ==
    IF list = <<>> THEN <<>>
    ELSE IF Head(list) = x THEN Tail(list)
    ELSE <<Head(list)>> \o ListRemove(Tail(list), x)

\* _save_data(): True when the file was written, False when an exception was caught
SaveData(data, disk, writable) ==
    [disk |-> IF writable THEN data ELSE disk, ret |-> writable]

\* DataStorage.add_favorite(city)
AddFavorite(arg, writable) ==
    LET city == Title(Strip(arg))
        favorites == storage.favorites
    IN
    /\ IF city \in Elements(favorites)
       THEN storage' = [storage EXCEPT !.op = "add_favorite", !.arg = arg, !.ret = FALSE]
       ELSE LET appended == Append(favorites, city)
                save == SaveData(appended, storage.disk, writable)
            IN  storage' = [favorites |-> appended, disk |-> save.disk,
                            op |-> "add_favorite", arg |-> arg, ret |-> save.ret]
    /\ UNCHANGED besideFavorites

\* DataStorage.remove_favorite(city)
RemoveFavorite(arg, writable) ==
    LET city == Title(Strip(arg))
        favorites == storage.favorites
    IN
    /\ IF city \notin Elements(favorites)
       THEN storage' = [storage EXCEPT !.op = "remove_favorite", !.arg = arg, !.ret = FALSE]
       ELSE LET removed == ListRemove(favorites, city)
                save == SaveData(removed, storage.disk, writable)
            IN  storage' = [favorites |-> removed, disk |-> save.disk,
                            op |-> "remove_favorite", arg |-> arg, ret |-> save.ret]
    /\ UNCHANGED besideFavorites

\* DataStorage.clear_favorites()
ClearFavorites(writable) ==
    /\ LET save == SaveData(<<>>, storage.disk, writable) IN
       storage' = [favorites |-> <<>>, disk |-> save.disk,
                   op |-> "clear_favorites", arg |-> <<>>, ret |-> save.ret]
    /\ UNCHANGED besideFavorites

NextFavorites ==
    \/ \E arg \in FavoriteArgs, writable \in BOOLEAN : AddFavorite(arg, writable)
    \/ \E arg \in FavoriteArgs, writable \in BOOLEAN : RemoveFavorite(arg, writable)
    \/ \E writable \in BOOLEAN : ClearFavorites(writable)

SpecFavorites == Init /\ [][NextFavorites]_vars

(***************************************************************************)
(* The routes of the inventory application.  A request is served in one    *)
(* step: the decorator's test, then the view function with its commit.     *)
(***************************************************************************)
Request(route, method, response, ran) ==
    [NoRequest EXCEPT !.route = route, !.method = method, !.response = response, !.ran = ran]

Respond(w, req) == [w EXCEPT !.served = w.served + 1, !.req = req]

\* a decorator that lets every request through
LoginRequiredOpen(session) == TRUE

\* login_required: the view function is entered when this holds
LoginRequired(session) == "user_id" \in DOMAIN session

\* admin_required: "login" without user_id, "dashboard" for another role, else "enter"
AdminRequired(session) ==
    IF "user_id" \notin DOMAIN session THEN "login"
    ELSE LET user == CHOOSE u \in Users : u.id = session.user_id
         IN  IF user.role # "admin" THEN "dashboard" ELSE "enter"

Methods == {"GET", "POST"}
Credentials == { <<"admin", "admin123">>, <<"admin", "letmein">>, <<"guest", "admin123">> }
ReadPages == {"dashboard", "items", "categories", "locations", "reports"}
ItemIds == 1..2
Quantities == {3}
TransactionQuantities == {2, 5}
TransactionTypes == {"check-out", "transfer", "return", "adjust", "audit"}

\* index(): to the dashboard with a session, to the login page without
Index ==
    /\ web.served < MaxRequests
    /\ web' = Respond(web, Request("index", "GET",
                 IF "user_id" \in DOMAIN web.session THEN "redirect" ELSE "login", TRUE))
    /\ UNCHANGED besideInventory

\* login()
Login(method, username, password) ==
    LET found == {u \in Users : u.username = username}
        req(response) ==
            [Request("login", method, response, TRUE) EXCEPT
                 !.username = IF method = "POST" THEN username ELSE "",
                 !.password = IF method = "POST" THEN password ELSE ""]
    IN
    /\ web.served < MaxRequests
    /\ web' =
         IF method = "POST" /\ found # {}
            /\ CheckPasswordHash((CHOOSE u \in found : TRUE).password, password)
         THEN LET user == CHOOSE u \in found : TRUE IN
              [Respond(web, req("redirect")) EXCEPT
                  !.session = [user_id |-> user.id, username |-> user.username,
                               role |-> user.role]]
         ELSE Respond(web, req("page"))
    /\ UNCHANGED besideInventory

\* logout(): session.clear()
Logout ==
    /\ web.served < MaxRequests
    /\ web' = [Respond(web, Request("logout", "GET", "login", TRUE)) EXCEPT
                  !.session = EmptySession]
    /\ UNCHANGED besideInventory

\* dashboard(), items(), categories(), locations(), reports(): queries and a template
ViewPage(route) ==
    /\ web.served < MaxRequests
    /\ web' = IF ~LoginRequired(web.session)
              THEN Respond(web, Request(route, "GET", "login", FALSE))
              ELSE Respond(web, Request(route, "GET", "page", TRUE))
    /\ UNCHANGED besideInventory

\* item_detail(id)
ItemDetail(id) ==
    /\ web.served < MaxRequests
    /\ web' = IF ~LoginRequired(web.session)
              THEN Respond(web, Request("item_detail", "GET", "login", FALSE))
              ELSE Respond(web, Request("item_detail", "GET",
                                        IF id \in DOMAIN web.items THEN "page" ELSE "404", TRUE))
    /\ UNCHANGED besideInventory

\* add_item()
AddItem(method, quantity) ==
    /\ web.served < MaxRequests
    /\ web' = IF ~LoginRequired(web.session)
              THEN Respond(web, Request("add_item", method, "login", FALSE))
              ELSE IF method = "POST"
              THEN [Respond(web, Request("add_item", method, "redirect", TRUE)) EXCEPT
                       !.items = [id \in DOMAIN web.items \cup {web.next_id} |->
                                     IF id = web.next_id THEN quantity ELSE web.items[id]],
                       !.initial = [id \in DOMAIN web.initial \cup {web.next_id} |->
                                     IF id = web.next_id THEN quantity ELSE web.initial[id]],
                       !.next_id = web.next_id + 1]
              ELSE Respond(web, Request("add_item", method, "page", TRUE))
    /\ UNCHANGED besideInventory

\* edit_item(id)
EditItem(id, method, quantity) ==
    /\ web.served < MaxRequests
    /\ web' = IF ~LoginRequired(web.session)
              THEN Respond(web, Request("edit_item", method, "login", FALSE))
              ELSE IF id \notin DOMAIN web.items
              THEN Respond(web, Request("edit_item", method, "404", TRUE))
              ELSE IF method = "POST"
              THEN [Respond(web, Request("edit_item", method, "redirect", TRUE)) EXCEPT
                       !.items[id] = quantity,
                       !.edited = web.edited \cup {id}]
              ELSE Respond(web, Request("edit_item", method, "page", TRUE))
    /\ UNCHANGED besideInventory

\* delete_item(id); an item that has transactions cannot go: their item_id
\* is not nullable, the commit raises and the response is an error
DeleteItem(id) ==
    /\ web.served < MaxRequests
    /\ web' = IF ~LoginRequired(web.session)
              THEN Respond(web, Request("delete_item", "GET", "login", FALSE))
              ELSE IF id \notin DOMAIN web.items
              THEN Respond(web, Request("delete_item", "GET", "404", TRUE))
              ELSE IF \E i \in 1..Len(web.transactions) : web.transactions[i].item_id = id
              THEN Respond(web, Request("delete_item", "GET", "error", TRUE))
              ELSE [Respond(web, Request("delete_item", "GET", "redirect", TRUE)) EXCEPT
                       !.items = [j \in DOMAIN web.items \ {id} |-> web.items[j]]]
    /\ UNCHANGED besideInventory

\* an update that takes 'adjust' for a removal
UpdatedQuantityAdjustRemoves(item_quantity, transaction_type, quantity) ==
    IF transaction_type \in {"check-out", "transfer", "adjust"}
    THEN item_quantity - quantity
    ELSE IF transaction_type \in {"return"}
    THEN item_quantity + quantity
    ELSE item_quantity

\* "Update item quantity based on transaction type" (lines 266-270)
UpdatedQuantity(item_quantity, transaction_type, quantity) ==
    IF transaction_type \in {"check-out", "transfer"}
    THEN item_quantity - quantity
    ELSE IF transaction_type \in {"return", "adjust"}
    THEN item_quantity + quantity
    ELSE item_quantity

\* add_transaction(item_id)
AddTransaction(item_id, method, transaction_type, quantity) ==
    /\ web.served < MaxRequests
    /\ web' = IF ~LoginRequired(web.session)
              THEN Respond(web, Request("add_transaction", method, "login", FALSE))
              ELSE IF item_id \notin DOMAIN web.items
              THEN Respond(web, Request("add_transaction", method, "404", TRUE))
              ELSE IF method # "POST"
              THEN Respond(web, Request("add_transaction", method, "page", TRUE))
              ELSE IF "user_id" \notin DOMAIN web.session
              THEN \* session['user_id'] raises KeyError before the commit
                   Respond(web, Request("add_transaction", method, "error", TRUE))
              ELSE [Respond(web, Request("add_transaction", method, "redirect", TRUE)) EXCEPT
                       !.items[item_id] =
                           UpdatedQuantity(web.items[item_id], transaction_type, quantity),
                       !.transactions = Append(web.transactions,
                           [item_id |-> item_id, user_id |-> web.session.user_id,
                            transaction_type |-> transaction_type, quantity |-> quantity])]
    /\ UNCHANGED besideInventory

\* add_category(); a name that exists violates the unique constraint
AddCategory(method, name) ==
    LET gate == AdminRequired(web.session) IN
    /\ web.served < MaxRequests
    /\ web' = IF gate = "login"
              THEN Respond(web, Request("add_category", method, "login", FALSE))
              ELSE IF gate = "dashboard"
              THEN Respond(web, Request("add_category", method, "redirect", FALSE))
              ELSE IF method # "POST"
              THEN Respond(web, Request("add_category", method, "page", TRUE))
              ELSE IF name \in web.categories
              THEN Respond(web, Request("add_category", method, "error", TRUE))
              ELSE [Respond(web, Request("add_category", method, "redirect", TRUE)) EXCEPT
                       !.categories = web.categories \cup {name}]
    /\ UNCHANGED besideInventory

\* add_location()
AddLocation(method, name) ==
    LET gate == AdminRequired(web.session) IN
    /\ web.served < MaxRequests
    /\ web' = IF gate = "login"
              THEN Respond(web, Request("add_location", method, "login", FALSE))
              ELSE IF gate = "dashboard"
              THEN Respond(web, Request("add_location", method, "redirect", FALSE))
              ELSE IF method # "POST"
              THEN Respond(web, Request("add_location", method, "page", TRUE))
              ELSE IF name \in web.locations
              THEN Respond(web, Request("add_location", method, "error", TRUE))
              ELSE [Respond(web, Request("add_location", method, "redirect", TRUE)) EXCEPT
                       !.locations = web.locations \cup {name}]
    /\ UNCHANGED besideInventory

NextInventory ==
    \/ Index
    \/ \E method \in Methods, c \in Credentials : Login(method, c[1], c[2])
    \/ Logout
    \/ \E route \in ReadPages : ViewPage(route)
    \/ \E id \in ItemIds : ItemDetail(id)
    \/ \E method \in Methods, quantity \in Quantities : AddItem(method, quantity)
    \/ \E id \in ItemIds, method \in Methods, quantity \in Quantities :
          EditItem(id, method, quantity + 1)
    \/ \E id \in ItemIds : DeleteItem(id)
    \/ \E item_id \in ItemIds, method \in Methods, transaction_type \in TransactionTypes,
          quantity \in TransactionQuantities :
          AddTransaction(item_id, method, transaction_type, quantity)
    \/ \E method \in Methods : AddCategory(method, "tools")
    \/ \E method \in Methods : AddLocation(method, "depot")

SpecInventory == Init /\ [][NextInventory]_vars

(***************************************************************************)
(* Properties.  In a step, the unprimed variables are the state the call   *)
(* found (now is the clock when _is_cache_valid ran) and last' is what the *)
(* call did.                                                               *)
(***************************************************************************)
IsGet(obs) == obs.op \in {"get_current_weather", "get_forecast"}

\* C1 as stated: once some call has stored an entry for k at time t, every
\* later call for k made while now - t < cache_duration makes no request and
\* returns the value that call returned (whatever happened in between).
C1_HitWithinWindowOfAnyStore ==
    [][ ( /\ IsGet(last')
          /\ lastStore.stored
          /\ lastStore.key = last'.key
          /\ now - lastStore.timestamp < cache_duration )
        => ( last'.requests = 0 /\ last'.ret = lastStore.data ) ]_vars

\* C1 amended: once a call has stored an entry for k at time t, every later
\* call for k made while now - t < cache_duration, with no clear_cache()
\* since that store, makes no request and returns the value that call
\* returned; equally, a call that finds an entry younger than cache_duration
\* makes no request and returns the entry's value.
C1_HitWithinWindow ==
    [][ IsGet(last') =>
          /\ ( ( /\ lastStore.stored
                 /\ ~lastStore.cleared
                 /\ lastStore.key = last'.key
                 /\ now - lastStore.timestamp < cache_duration )
               => ( last'.requests = 0 /\ last'.ret = lastStore.data ) )
          /\ ( ( /\ last'.key \in DOMAIN cache
                 /\ now - cache[last'.key].timestamp < cache_duration )
               => ( last'.requests = 0 /\ last'.ret = cache[last'.key].data ) ) ]_vars

\* a second call for the key of the latest store, a tick later and inside the
\* window, was served without a request
C1_Witness ==
    /\ IsGet(last)
    /\ calls = 2
    /\ last.requests = 0
    /\ lastStore.stored /\ ~lastStore.cleared
    /\ lastStore.key = last.key
    /\ last.checked_at - lastStore.timestamp >= TickStep
    /\ last.checked_at - lastStore.timestamp < cache_duration
    /\ last.ret = lastStore.data

\* C2: a call for a key whose entry is cache_duration seconds old or older
\* (the boundary included) invokes the external fetch and is not served from
\* the stored value.
C2_StaleEntryIsFetchedAgain ==
    [][ ( /\ IsGet(last')
          /\ last'.key \in DOMAIN cache
          /\ now - cache[last'.key].timestamp >= cache_duration )
        => ( last'.requests = 1 /\ last'.result # "hit" ) ]_vars

\* a call found an entry exactly cache_duration seconds old and asked the
\* service (which failed, so the old entry is still there to be seen)
C2_Witness ==
    /\ IsGet(last)
    /\ last.had
    /\ last.result = "failed"
    /\ last.requests = 1
    /\ last.key \in DOMAIN cache
    /\ last.checked_at - cache[last.key].timestamp = cache_duration

\* C3: a call that misses and whose request fails (_make_request returns
\* None) returns None, also when a stale value is stored for the key.
C3_FailedFetchReturnsNone ==
    (IsGet(last) /\ last.result = "failed") => last.ret = None

\* a failed call returned None while the key's stale entry holds a value
C3_Witness ==
    /\ IsGet(last)
    /\ last.result = "failed"
    /\ last.had
    /\ last.key \in DOMAIN cache
    /\ cache[last.key].data # None
    /\ last.checked_at - cache[last.key].timestamp >= cache_duration
    /\ last.ret = None

\* C4: a call whose request fails leaves the cache exactly as it found it,
\* and the next call for the same key asks the service again.
C4_FailedFetchLeavesCache ==
    [][ /\ ( (IsGet(last') /\ last'.result = "failed") => cache' = cache )
        /\ ( ( /\ IsGet(last) /\ last.result = "failed"
               /\ IsGet(last') /\ last'.key = last.key )
             => last'.requests = 1 ) ]_vars

\* a failed call for a key without entry, next to another key's entry
C4_Witness ==
    /\ IsGet(last)
    /\ last.result = "failed"
    /\ ~last.had
    /\ last.key \notin DOMAIN cache
    /\ DOMAIN cache # {}

\* C5: clear_cache() leaves the cache empty, and a call that finds the cache
\* empty (as the first call after a clear does) asks the service.
C5_ClearThenGetFetches ==
    [][ /\ ( last'.op = "clear_cache" => DOMAIN cache' = {} )
        /\ ( (IsGet(last') /\ DOMAIN cache = {}) => last'.requests = 1 )
        /\ ( (last.op = "clear_cache" /\ IsGet(last')) => last'.requests = 1 ) ]_vars

\* a call asked the service for the key of an entry that was cleared while
\* it was still fresh
C5_Witness ==
    /\ IsGet(last)
    /\ last.requests = 1
    /\ last.result = "failed"
    /\ lastStore.stored /\ lastStore.cleared
    /\ lastStore.key = last.key
    /\ last.checked_at - lastStore.timestamp < cache_duration

\* C6 as stated: an operation is on offer that removes the single entry of a
\* key and leaves every other entry as it is.
C6_InvalidateOffered ==
    \A k \in DOMAIN cache :
        ENABLED ( Next /\ cache' = [j \in DOMAIN cache \ {k} |-> cache[j]] )

\* C6 amended: WeatherAPI has no operation that removes a single entry; the
\* only step that removes an entry is clear_cache(), which removes all of
\* them at once, and a get that follows clear_cache() immediately asks the
\* service even when the key's entry was still fresh.
C6_OnlyClearRemoves ==
    [][ /\ ( (\E k \in DOMAIN cache : k \notin DOMAIN cache')
             => (last'.op = "clear_cache" /\ cache' = EmptyCache) )
        /\ ( last'.op = "clear_cache" => cache' = EmptyCache )
        /\ ( (last.op = "clear_cache" /\ IsGet(last')) => last'.result # "hit" ) ]_vars

\* clear_cache() has just removed an entry that was still fresh
C6_Witness ==
    /\ last.op = "clear_cache"
    /\ cache = EmptyCache
    /\ lastStore.stored /\ lastStore.cleared
    /\ now - lastStore.timestamp < cache_duration

\* C7: a call makes no request on a hit and exactly one otherwise; a failed
\* request is not repeated.
C7_AtMostOneRequest ==
    IsGet(last) =>
        /\ last.requests \in {0, 1}
        /\ (last.result = "hit") <=> (last.requests = 0)
        /\ (last.result \in {"failed", "empty", "raised", "stored"}) <=> (last.requests = 1)

\* a call for a stale entry whose single request failed
C7_Witness ==
    /\ IsGet(last)
    /\ last.had
    /\ last.result = "failed"
    /\ last.requests = 1

\* C8: a value returned for a request (an endpoint and a lower-cased city) is
\* the result parsed from the latest successful fetch of that same request
\* since the last clear_cache(), made by this call or by an earlier one.
C8_NeverFabricates ==
    (IsGet(last) /\ last.ret # None) =>
        last.ret = fetched[<<last.endpoint, Lower(last.city)>>]

\* the second call was a hit and returned the value the first call fetched
C8_Witness ==
    /\ IsGet(last)
    /\ last.result = "hit"
    /\ last.ret # None
    /\ last.ret = fetched[<<last.endpoint, Lower(last.city)>>]
    /\ calls = 2

\* C9: after a miss whose fetch succeeded, the key's entry holds the value
\* the call returned, stamped with the current time, and is fresh.
C9_SuccessfulMissStores ==
    (IsGet(last) /\ last.requests = 1 /\ last.result \notin {"failed", "empty", "raised"}) =>
        /\ last.ret # None
        /\ last.key \in DOMAIN cache
        /\ cache[last.key] = [data |-> last.ret, timestamp |-> now]
        /\ IsCacheValid(cache, last.key, now, cache_duration)

\* a miss was answered after a delay and its result stored at the later time
C9_Witness ==
    /\ IsGet(last)
    /\ last.result = "stored"
    /\ last.checked_at < now
    /\ cache[last.key] = [data |-> last.ret, timestamp |-> now]

\* C10: no step lowers the timestamp of an entry that stays in the cache,
\* and a refresh of a key that has an entry replaces that entry: the set of
\* keys stays as it was.
C10_TimestampNeverDecreases ==
    [][ /\ \A k \in DOMAIN cache \cap DOMAIN cache' :
              cache'[k].timestamp >= cache[k].timestamp
        /\ ( (IsGet(last') /\ last'.result = "stored" /\ last'.key \in DOMAIN cache)
             => ( /\ DOMAIN cache' = DOMAIN cache
                  /\ cache'[last'.key].timestamp >= cache[last'.key].timestamp ) )
      ]_vars

\* a stale entry has been overwritten by a refresh
C10_Witness ==
    /\ IsGet(last)
    /\ last.had
    /\ last.result = "stored"
    /\ cache[last.key].timestamp = now
    /\ now >= cache_duration

\* C11: a step other than clear_cache() removes no key from the cache, and
\* leaves an expired entry where it is.
C11_OnlyClearShrinksKeys ==
    [][ last'.op # "clear_cache" => DOMAIN cache \subseteq DOMAIN cache' ]_vars

\* an entry whose window has elapsed is still in the cache, next to the
\* entry a later call stored for another key
C11_Witness ==
    /\ IsGet(last)
    /\ last.result = "stored"
    /\ Cardinality(DOMAIN cache) = 2
    /\ \E k \in DOMAIN cache : k # last.key /\ now - cache[k].timestamp >= cache_duration

(***************************************************************************)
(* Two typed city names differ only in letter case or in leading and       *)
(* trailing blanks: some middle parts of the two, of the same length and   *)
(* equal letter by letter up to case, are surrounded by blanks only.       *)
(***************************************************************************)
SameLetter(a, b) ==
    \/ a = b
    \/ <<a, b>> \in { <<"R", "r">>, <<"r", "R">>, <<"O", "o">>, <<"o", "O">> }

OnlyBlanks(s, from, to) == \A i \in from..to : s[i] = " "

SameCityName(a, b) ==
    \E i \in 1..Len(a) + 1, j \in 1..Len(b) + 1, n \in 0..Len(a) :
        /\ i + n - 1 <= Len(a)
        /\ j + n - 1 <= Len(b)
        /\ OnlyBlanks(a, 1, i - 1) /\ OnlyBlanks(a, i + n, Len(a))
        /\ OnlyBlanks(b, 1, j - 1) /\ OnlyBlanks(b, j + n, Len(b))
        /\ \A d \in 0..n - 1 : SameLetter(a[i + d], b[j + d])

SameNames ==
    {pair \in {<<a, b>> : a \in InputLines, b \in InputLines} :
        SameCityName(pair[1], pair[2])}

\* C12: a call of the kind of the latest store, for a city typed like the
\* stored one up to case and surrounding blanks, computes the stored key;
\* made inside the window (and with no clear_cache() since), it makes no
\* request and returns the stored value.
C12_SameCitySameSlot ==
    [][ ( /\ IsGet(last')
          /\ lastStore.stored
          /\ Head(lastStore.key) = Head(last'.key)
          /\ <<storedLine, typed'>> \in SameNames )
        => /\ last'.key = lastStore.key
           /\ ( (~lastStore.cleared /\ now - lastStore.timestamp < cache_duration)
                => (last'.requests = 0 /\ last'.ret = lastStore.data) ) ]_vars

\* "Rome" was typed for one call and " rome " for the other; the second was
\* served from the entry the first had stored
C12_Witness ==
    /\ IsGet(last)
    /\ last.requests = 0
    /\ typed # storedLine
    /\ Len(typed) # Len(storedLine)
    /\ SameCityName(storedLine, typed)
    /\ lastStore.stored /\ ~lastStore.cleared
    /\ last.key = lastStore.key
    /\ last.ret = lastStore.data

(***************************************************************************)
(* Properties of the two-thread program (SpecThreads).                     *)
(***************************************************************************)
\* C13: check, fetch and store are separate steps with nothing held in
\* between: a thread that has observed a miss makes its own request whatever
\* the other thread did meanwhile, and its store replaces whatever entry the
\* key has by then.
C13_CheckFetchStoreNotAtomic ==
    [][ \A t \in Threads :
          /\ (threads[t].pc = "fetch" /\ threads'[t].pc # "fetch")
                => requestsMade' = requestsMade + 1
          /\ (threads[t].pc = "store" /\ threads'[t].pc = "done")
                => cache'[threads[t].key] = [data |-> threads[t].info, timestamp |-> now] ]_vars

\* both threads missed the same key and both fetched; the one that stored
\* last replaced a fresh entry of the other that was not there when it checked
C13_Witness ==
    \E t, u \in Threads :
        /\ t # u
        /\ threads[t].pc = "done" /\ threads[u].pc = "done"
        /\ threads[t].key = threads[u].key
        /\ requestsMade = 2
        /\ threads[u].info # None /\ threads[t].info # None
        /\ threads[t].replaced # None
        /\ threads[t].replaced # threads[t].saw
        /\ threads[t].replaced.data = threads[u].info
        /\ now - threads[t].replaced.timestamp < cache_duration
        /\ threads[t].info # threads[u].info
        /\ cache[threads[t].key].data = threads[t].info

(***************************************************************************)
(* Further properties of the command-line program (Spec).                  *)
(***************************************************************************)
\* C14: cache_duration is 600 in every state, an entry consists of its data
\* and its timestamp and nothing else, and every entry is judged against the
\* same 600 seconds.
C14_OneFixedWindow ==
    /\ cache_duration = CacheDuration
    /\ \A k \in DOMAIN cache :
          /\ DOMAIN cache[k] = {"data", "timestamp"}
          /\ IsCacheValid(cache, k, now, cache_duration)
                <=> now - cache[k].timestamp < CacheDuration

\* two entries stored at different times, one still inside the window and one
\* outside, after calls of both kinds or of one kind
C14_Witness ==
    /\ calls = MaxCalls
    /\ cache_duration = CacheDuration
    /\ \E j, k \in DOMAIN cache :
          /\ cache[j].timestamp # cache[k].timestamp
          /\ IsCacheValid(cache, j, now, cache_duration)
          /\ ~IsCacheValid(cache, k, now, cache_duration)

\* C15: a call served from the cache leaves every entry, the timestamp of
\* the entry it read included, as it was.
C15_HitLeavesCache ==
    [][ last'.result = "hit"
          => /\ cache' = cache
             /\ cache'[last'.key].timestamp = cache[last'.key].timestamp ]_vars

\* a hit some time after the store: the entry still carries the time of its
\* fetch, not the time of the read
C15_Witness ==
    /\ last.result = "hit"
    /\ lastStore.stored /\ lastStore.key = last.key
    /\ last.checked_at > lastStore.timestamp
    /\ cache[last.key].timestamp = lastStore.timestamp
    /\ cache[last.key].timestamp < now

KindPrefix(op) == IF op = "get_current_weather" THEN "current_" ELSE "forecast_"

\* C16: a call touches the entry of its own key only: every other entry is
\* kept as it was and no other key appears; the key carries the prefix of the
\* call's kind, and a hit returns the data of that key's entry.
C16_OnlyOwnSlot ==
    [][ IsGet(last')
          => /\ Head(last'.key) = KindPrefix(last'.op)
             /\ DOMAIN cache' \subseteq DOMAIN cache \cup {last'.key}
             /\ \A k \in DOMAIN cache \ {last'.key} :
                   k \in DOMAIN cache' /\ cache'[k] = cache[k]
             /\ last'.result = "hit" => last'.ret = cache[last'.key].data ]_vars

\* get_forecast for a city whose current weather is cached: it fetched, and
\* both entries are there, the current-weather one as it was stored
C16_Witness ==
    /\ last.op = "get_forecast" /\ last.result = "stored"
    /\ \E k \in DOMAIN cache :
          /\ Head(k) = "current_"
          /\ Tail(k) = Tail(last.key)
          /\ cache[k].data # cache[last.key].data
          /\ cache[k].timestamp < cache[last.key].timestamp

\* C17: a call whose request was answered with an empty body returns None
\* after its one request and writes nothing; no entry ever holds None or an
\* empty body.
C17_EmptyBodyIsFailure ==
    [][ /\ last'.result = "empty"
          => (last'.ret = None /\ last'.requests = 1 /\ cache' = cache)
        /\ \A k \in DOMAIN cache' : ~Falsy(cache'[k].data) ]_vars

\* an empty body for a key whose entry had gone stale: the old entry stays
C17_Witness ==
    /\ last.result = "empty"
    /\ last.ret = None
    /\ last.had
    /\ last.key \in DOMAIN cache
    /\ now - cache[last.key].timestamp >= cache_duration

(***************************************************************************)
(* Properties of the forecast loop (SpecForecast).                         *)
(***************************************************************************)
HourOf(item) == (item.dt \div 3600) % 24
DateOf(item) == item.dt \div (24 * 3600)

\* the positions of the noon items that are the first noon item of their date
FirstNoons(list) ==
    { i \in 1..Len(list) :
        /\ HourOf(list[i]) = 12
        /\ \A j \in 1..(i - 1) : ~(HourOf(list[j]) = 12 /\ DateOf(list[j]) = DateOf(list[i])) }

\* the n-th smallest member of a set of positions
NthOf(positions, n) ==
    CHOOSE i \in positions : Cardinality({j \in positions : j <= i}) = n

\* C18: when the loop has ended, the forecasts are those of the first noon
\* items of their dates, in the order of the list, the first 5 of them at
\* most (so: at most 5, all from hour 12, no date twice), the result is the
\* one get_forecast stores, and the items after the one that gave the fifth
\* forecast were not looked at.
C18_FiveNoonForecasts ==
    scan.done =>
        LET list == scan.list
            out == scan.forecasts
            picks == FirstNoons(list)
            n == IF Cardinality(picks) < 5 THEN Cardinality(picks) ELSE 5
        IN  /\ Len(out) = n
            /\ Len(out) <= 5
            /\ \A j \in 1..n : out[j] = ForecastOf(list[NthOf(picks, j)])
            /\ \A j, k \in 1..n :
                  j # k => DateOf(list[NthOf(picks, j)]) # DateOf(list[NthOf(picks, k)])
            /\ out = ScanForecast(list, 1, <<>>, {})
            /\ scan.i - 1 = IF Cardinality(picks) >= 5 THEN NthOf(picks, 5) ELSE Len(list)

\* a response with six days of noon items, an item of another hour and a
\* second noon item of a day already used: five forecasts, and the loop left
\* before the end of the list
C18_Witness ==
    /\ scan.done
    /\ Cardinality(FirstNoons(scan.list)) > 5
    /\ Len(scan.forecasts) = 5
    /\ scan.i - 1 < Len(scan.list)
    /\ \E j \in 1..(scan.i - 1) : HourOf(scan.list[j]) # 12
    /\ \E j \in 1..(scan.i - 1) : HourOf(scan.list[j]) = 12 /\ j \notin FirstNoons(scan.list)

(***************************************************************************)
(* Properties of the favourites (SpecFavorites).                           *)
(***************************************************************************)
NoDuplicates(list) == \A i, j \in 1..Len(list) : list[i] = list[j] => i = j

\* C19 as stated: add_favorite answers False only for a city (stripped and
\* title-cased) that the list already holds, and then leaves the list as it
\* was; and the list never holds a city twice.
C19_FalseOnlyWhenAlreadyFavorite ==
    [][ /\ (storage'.op = "add_favorite" /\ storage'.ret = FALSE)
          => /\ Title(Strip(storage'.arg)) \in Elements(storage.favorites)
             /\ storage'.favorites = storage.favorites
        /\ NoDuplicates(storage'.favorites) ]_vars

(***************************************************************************)
(* Properties of the inventory application (SpecInventory).                *)
(***************************************************************************)
ProtectedRoutes ==
    { "dashboard", "items", "item_detail", "add_item", "edit_item", "delete_item",
      "add_transaction", "categories", "locations", "reports" }

Tables(w) == <<w.items, w.next_id, w.transactions, w.categories, w.locations>>

\* C20: a request to a login_required route that arrives without user_id in
\* the session is answered with the redirect to the login page, the view
\* function is not entered and no table changes; logout leaves the session
\* without user_id; and user_id enters the session only through a login POST
\* with the name and the password of a user.
C20_LoginRequiredGuards ==
    [][ LET before == "user_id" \in DOMAIN web.session
            after == "user_id" \in DOMAIN web'.session
        IN  /\ (web'.req.route \in ProtectedRoutes /\ ~before)
                  => /\ web'.req.response = "login"
                     /\ ~web'.req.ran
                     /\ Tables(web') = Tables(web)
                     /\ ~after
            /\ web'.req.route = "logout" => ~after
            /\ (~before /\ after)
                  => /\ web'.req.route = "login" /\ web'.req.method = "POST"
                     /\ web'.req.username = "admin" /\ web'.req.password = "admin123" ]_vars

\* after a login, an added item and a logout, the request to delete that
\* item is redirected to the login page and the item is still there
C20_Witness ==
    /\ web.req.route = "delete_item"
    /\ web.req.response = "login"
    /\ ~web.req.ran
    /\ "user_id" \notin DOMAIN web.session
    /\ DOMAIN web.items # {}

\* the rows of Transaction that belong to an item
TransactionsOf(w, id) == {i \in 1..Len(w.transactions) : w.transactions[i].item_id = id}

\* the sum of quantity over the rows of an item that carry one of the types
RECURSIVE SumOver(_, _, _)
SumOver(w, rows, types) ==
    IF rows = {} THEN 0
    ELSE LET i == CHOOSE j \in rows : TRUE
         IN  (IF w.transactions[i].transaction_type \in types
              THEN w.transactions[i].quantity ELSE 0) + SumOver(w, rows \ {i}, types)

\* C21: a POST to add_transaction for an existing item with quantity q adds
\* exactly one row to Transaction, the row of that request, and changes the
\* quantity of that item only: minus q for check-out and transfer, plus q for
\* return and adjust, nothing for another type; and an item whose quantity
\* only transactions have changed since add_item holds its initial quantity
\* plus its returns and adjusts minus its check-outs and transfers.
C21_TransactionsAccount ==
    [][ LET req == web'.req
            posted == /\ req.route = "add_transaction" /\ req.method = "POST"
                      /\ req.response = "redirect"
            row == web'.transactions[Len(web'.transactions)]
            id == row.item_id
            q == row.quantity
        IN  /\ posted =>
                  /\ Len(web'.transactions) = Len(web.transactions) + 1
                  /\ SubSeq(web'.transactions, 1, Len(web.transactions)) = web.transactions
                  /\ id \in DOMAIN web.items
                  /\ DOMAIN web'.items = DOMAIN web.items
                  /\ \A other \in DOMAIN web.items \ {id} : web'.items[other] = web.items[other]
                  /\ row.transaction_type \in {"check-out", "transfer"}
                        => web'.items[id] = web.items[id] - q
                  /\ row.transaction_type \in {"return", "adjust"}
                        => web'.items[id] = web.items[id] + q
                  /\ row.transaction_type \notin {"check-out", "transfer", "return", "adjust"}
                        => web'.items[id] = web.items[id]
            /\ ~posted => web'.transactions = web.transactions
            /\ \A item \in DOMAIN web'.items \ web'.edited :
                  web'.items[item] =
                      web'.initial[item]
                        + SumOver(web', TransactionsOf(web', item), {"return", "adjust"})
                        - SumOver(web', TransactionsOf(web', item), {"check-out", "transfer"}) ]_vars

\* an item that was not edited, after a check-out of 5 and an adjust of 2:
\* its quantity has gone below zero and come back to 3 - 5 + 2
C21_Witness ==
    /\ web.req.route = "add_transaction" /\ web.req.response = "redirect"
    /\ \E item \in DOMAIN web.items \ web.edited :
          /\ Cardinality(TransactionsOf(web, item)) = 2
          /\ \E i, j \in TransactionsOf(web, item) :
                /\ i < j
                /\ web.transactions[i].transaction_type = "check-out"
                /\ web.transactions[i].quantity = 5
                /\ web.transactions[j].transaction_type = "adjust"
                /\ web.transactions[j].quantity = 2
          /\ web.initial[item] = 3
          /\ web.items[item] = 0

====
